---- MODULE Spec2Model ----
(***************************************************************************)
(* Model of mimesis' provider substrate: locale validation, dataset        *)
(* loading with base-locale fallback, dataset patching, scoped locale      *)
(* override (mimesis/providers/base.py, mimesis/locales.py) and the        *)
(* seeding of the per-provider random source.                              *)
(*                                                                         *)
(* Python strings are sequences of one-character strings, so that          *)
(* str.upper(), str.split() and the `in` test are computed, not assumed.   *)
(* A JSON mapping is a function from keys to values; a scalar value v is   *)
(* the one-field record [SCALAR |-> v], so a value is a dict exactly when  *)
(* it has no SCALAR field.                                                 *)
(***************************************************************************)
EXTENDS Integers, Sequences, FiniteSets, TLC

VARIABLES
    fs,        \* the data directory: locale directory -> [exists, data]
    named,     \* whether the provider class sets Meta.name
    phase,     \* "new" | "live" (constructor returned) | "failed" (it raised)
    hasLocale, \* whether the instance has the attribute `locale`
    locale,    \* self.locale (a str) when hasLocale
    dataset,   \* self._dataset
    loadedFor, \* the locale whose load produced (or kept) self._dataset
    pristine,  \* self._dataset as the last load (or __init__) left it
    scopes,    \* open override_locale scopes, innermost last
    last,      \* what the last operation was given, saw and returned
    rng,       \* generator object -> its state
    prov,      \* provider -> its attributes (gen: the generator object its
               \* self.random names) and what it was last seeded with
    sync,      \* both providers seeded alike and driven in lockstep since
    glast,     \* the last seeding or generation operation and its outputs
    heap,      \* the dict objects: address -> its (key, value) items in order
    dsAddr,    \* provider -> the dict object its self._dataset names
    mlast,     \* the last _extract or update_dataset call on the objects
    globalSeed,\* mimesis.random.global_seed
    clast      \* the _has_seed or validate_enum call just made and its result

dvars == <<fs, named, phase, hasLocale, locale, dataset, loadedFor, pristine,
           scopes, last>>

svars == <<rng, prov, sync, glast>>

hvars == <<heap, dsAddr, mlast>>

cvars == <<globalSeed, clast>>
vars == <<dvars, svars, hvars, cvars>>

\* ----------------------------------------------------------------- bounds
\* How many override_locale scopes may be open at once.
MaxDepth == 2

\* ---------------------------------------------------------------- strings
LowerChars == <<"a","b","c","d","e","f","g","h","i","j","k","l","m",
                "n","o","p","q","r","s","t","u","v","w","x","y","z">>
UpperChars == <<"A","B","C","D","E","F","G","H","I","J","K","L","M",
                "N","O","P","Q","R","S","T","U","V","W","X","Y","Z">>

UpperChar(c) ==
    IF \E i \in DOMAIN LowerChars : LowerChars[i] = c
    THEN UpperChars[CHOOSE i \in DOMAIN LowerChars : LowerChars[i] = c]
    ELSE c

\* str.upper()
Upper(s) == [i \in DOMAIN s |-> UpperChar(s[i])]

\* mimesis.constants.LOCALE_SEP
LOCALE_SEP == "-"

\* LOCALE_SEP in s
Contains(s, c) == \E i \in DOMAIN s : s[i] = c

\* s.split(c)[0]
SplitFirst(s, c) ==
    IF Contains(s, c)
    THEN SubSeq(s, 1, (CHOOSE i \in DOMAIN s :
                          s[i] = c /\ \A j \in 1..(i - 1) : s[j] # c) - 1)
    ELSE s

EmptyStr == <<>>

\* ------------------------------------------------------------- Locale enum
\* mimesis.enums.Locale: members by name, each with its tag as value.
\* DEFAULT is an alias of EN.
LocaleMembers ==
    { [name |-> <<"E","N">>,             value |-> <<"e","n">>],
      [name |-> <<"E","N","_","G","B">>, value |-> <<"e","n","-","g","b">>],
      [name |-> <<"F","R">>,             value |-> <<"f","r">>],
      [name |-> <<"D","E","F","A","U","L","T">>, value |-> <<"e","n">>] }

MemberNames == { m.name : m \in LocaleMembers }
Tags == { m.value : m \in LocaleMembers }

\* Locale[name].value, for name in Locale.__members__
MemberValue(name) == (CHOOSE m \in LocaleMembers : m.name = name).value

\* Locale.DEFAULT
DEFAULT == <<"D","E","F","A","U","L","T">>

\* Python values handed in as a locale: None, a Locale member (by name),
\* a str, or an object of another type.
PyNone == [kind |-> "none", text |-> EmptyStr]
PyMember(n) == [kind |-> "member", text |-> n]
PyStr(s) == [kind |-> "str", text |-> s]
PyOther == [kind |-> "other", text |-> EmptyStr]

\* ---------------------------------------------------------------- datasets
Leaf(v) == [SCALAR |-> v]
IsDict(v) == "SCALAR" \notin DOMAIN v
EmptyDict == <<>>

\* dict.update(other): top-level keys of other win
DictUpdate(d, other) ==
    [k \in DOMAIN d \cup DOMAIN other |->
        IF k \in DOMAIN other THEN other[k] ELSE d[k]]

RECURSIVE UpdateDictBody(_, _)
UpdateDictBody(initial, other) ==
    [k \in DOMAIN initial \cup DOMAIN other |->
        IF k \in DOMAIN other
        THEN IF k \in DOMAIN initial /\ IsDict(initial[k]) /\ IsDict(other[k])
             THEN UpdateDictBody(initial[k], other[k])
             ELSE other[k]
        ELSE initial[k]]

\* BaseDataProvider._update_dict
UpdateDict(initial, other) == UpdateDictBody(initial, other)

\* ---------------------------------------------------------- validate_locale
\* mimesis.locales.validate_locale: the member it returns (by name), or the
\* error it raises.
ValidateLocale(x) ==
    IF x.kind = "none" THEN [err |-> "TypeError", name |-> EmptyStr]
    ELSE IF x.kind = "member" THEN [err |-> "none", name |-> x.text]
    ELSE IF x.kind # "str" THEN [err |-> "LocaleError", name |-> EmptyStr]
    ELSE IF Upper(x.text) \in MemberNames
         THEN [err |-> "none", name |-> Upper(x.text)]
         ELSE [err |-> "LocaleError", name |-> EmptyStr]

\* --------------------------------------------------------- the data directory
Dirs == { <<"e","n">>, <<"e","n","-","g","b">>, <<"f","r">> }

EN_DATA == [greeting |-> Leaf("hello"), day |-> [a |-> Leaf("mon")]]
GB_DATA == [day |-> [b |-> Leaf("tue")]]
FR_DATA == [greeting |-> Leaf("salut")]

NoFile == [exists |-> FALSE, data |-> EmptyDict]
File(d) == [exists |-> TRUE, data |-> d]

\* Every data directory considered: the base locale's file is missing, holds
\* an empty mapping, or holds data; each other file is missing or holds data.
FileSystems ==
    { [d \in Dirs |-> IF d = <<"e","n">> THEN a
                      ELSE IF d = <<"f","r">> THEN c ELSE b] :
        a \in {NoFile, File(EmptyDict), File(EN_DATA)},
        b \in {NoFile, File(GB_DATA)},
        c \in {NoFile, File(FR_DATA)} }

\* datadir.joinpath(dir, datafile).exists()
FileExists(dir) == dir \in DOMAIN fs /\ fs[dir].exists

\* json.load of that file
FileData(dir) == fs[dir].data

\* ------------------------------------------------------------- _load_dataset
\* A loader that, finding no file at all, silently installs the empty mapping
\* instead of raising.
LoadDatasetLenient(loc, has, ds) ==
    LET lc == IF has THEN loc ELSE MemberValue(DEFAULT)
        base == SplitFirst(lc, LOCALE_SEP)
        data == IF Contains(lc, LOCALE_SEP) /\ FileExists(base)
                THEN FileData(base) ELSE EmptyDict
    IN  IF ~named THEN [err |-> "none", dataset |-> ds]
        ELSE IF ~FileExists(lc)
             THEN [err |-> "none", dataset |-> data]
             ELSE [err |-> "none", dataset |-> DictUpdate(data, FileData(lc))]

\* BaseDataProvider._load_dataset for an instance whose locale attribute is
\* loc (when has) and whose dataset is ds: the error raised, and self._dataset
\* afterwards.
LoadDataset(loc, has, ds) ==
    LET lc == IF has THEN loc ELSE MemberValue(DEFAULT)
        base == SplitFirst(lc, LOCALE_SEP)
        data == IF Contains(lc, LOCALE_SEP) /\ FileExists(base)
                THEN FileData(base) ELSE EmptyDict
    IN  IF ~named THEN [err |-> "none", dataset |-> ds]
        ELSE IF ~FileExists(lc)
             THEN IF data = EmptyDict
                  THEN [err |-> "FileNotFoundError", dataset |-> ds]
                  ELSE [err |-> "none", dataset |-> data]
             ELSE [err |-> "none", dataset |-> DictUpdate(data, FileData(lc))]

\* ------------------------------------------------------------ _setup_locale
\* BaseDataProvider._setup_locale(x): validate, then set the attribute to the
\* member's value (a str).
SetupLocale(x) ==
    LET v == ValidateLocale(x) IN
    IF v.err # "none"
    THEN [err |-> v.err, has |-> hasLocale, locale |-> locale]
    ELSE [err |-> "none", has |-> TRUE, locale |-> MemberValue(v.name)]

\* _setup_locale(x) followed by _load_dataset(), as __init__ and
\* _override_locale run them, on an instance whose dataset is ds. The
\* attributes afterwards and the error raised; ran tells whether
\* _load_dataset was reached.
SetupThenLoad(x, ds) ==
    LET s == SetupLocale(x) IN
    IF s.err # "none"
    THEN [err |-> s.err, has |-> s.has, locale |-> s.locale,
          dataset |-> ds, ran |-> FALSE]
    ELSE LET l == LoadDataset(s.locale, s.has, ds)
         IN  [err |-> l.err, has |-> s.has, locale |-> s.locale,
              dataset |-> l.dataset, ran |-> TRUE]

\* BaseDataProvider._override_locale(x)
OverrideLocale(x) == SetupThenLoad(x, dataset)

\* ===================================================================
\* The random source: BaseProvider.__init__, reseed, and the generation
\* methods that draw from self.random
\* ===================================================================
Provs == {1, 2}

\* The generator objects: the Random() each provider may build for itself
\* (named as the provider is), and one Random the caller built and may hand
\* to either provider or to both.
CallerRandom == 0
Randoms == Provs \cup {CallerRandom}

\* mimesis.types.Seed: the MissingSeed sentinel, None, or a concrete value
MissingSeed == [kind |-> "missing", v |-> 0]
NoneSeed == [kind |-> "none", v |-> 0]
Concrete(n) == [kind |-> "value", v |-> n]
ConcreteSeeds == {1, 2}
SeedArgs == {MissingSeed, NoneSeed} \cup { Concrete(n) : n \in ConcreteSeeds }

\* mimesis.random.Random, a random.Random: a deterministic generator over a
\* finite set of states. seed(n) puts it in a state fixed by n; seed(None)
\* and Random() take the state from system entropy.
RngMod == 4
RngStates == 0..(RngMod - 1)
SeedState(n) == (n + 1) % RngMod
NextState(st) == (5 * st + 3) % RngMod

\* random.seed(a): the states the generator can be in afterwards
SeededStates(a) ==
    IF a.kind = "value" THEN {SeedState(a.v)} ELSE RngStates

\* random.choice(seq): the element drawn and the state afterwards
Choice(st, seq) ==
    [ret |-> seq[(st % Len(seq)) + 1], state |-> NextState(st)]

\* random.choices(seq, k=k): k draws, in order
RECURSIVE Choices(_, _, _)
Choices(st, seq, k) ==
    IF k <= 0 THEN [ret |-> <<>>, state |-> st]
    ELSE LET c == Choice(st, seq)
             rest == Choices(c.state, seq, k - 1)
         IN  [ret |-> <<c.ret>> \o rest.ret, state |-> rest.state]

\* A reseed that treats None like the missing sentinel and leaves the
\* generator alone.
ReseedSkipsNone(st, seed) ==
    IF seed.kind = "value"
    THEN [called |-> TRUE, states |-> SeededStates(seed)]
    ELSE [called |-> FALSE, states |-> {st}]

\* A reseed that calls seed() without passing the value on.
ReseedDropsValue(st, seed) ==
    IF seed # MissingSeed
    THEN [called |-> TRUE, states |-> RngStates]
    ELSE [called |-> FALSE, states |-> {st}]

\* BaseProvider.reseed(seed) on a generator in state st: whether
\* self.random.seed is called, and the states the generator can be in
\* afterwards.
Reseed(st, seed) ==
    IF seed # MissingSeed
    THEN [called |-> TRUE, states |-> SeededStates(seed)]
    ELSE [called |-> FALSE, states |-> {st}]

\* A constructor that builds its own generator whatever it is handed.
AdoptRandomFresh(rnd, s0) == RngStates

\* BaseProvider.__init__, the choice of self.random: the caller's generator
\* as it is (in state s0), or a new Random(); the states it can be in.
AdoptRandom(rnd, s0) == IF rnd = "external" THEN {s0} ELSE RngStates

\* Science.dna_sequence(length) / Science.rna_sequence(length)
DNA_NUCLEOTIDES == <<"A", "G", "T", "C">>
RNA_NUCLEOTIDES == <<"A", "G", "U", "C">>
DnaSequence(st, length) == Choices(st, DNA_NUCLEOTIDES, length)
RnaSequence(st, length) == Choices(st, RNA_NUCLEOTIDES, length)

\* mimesis.enums.MeasureUnit: members with (unit name, unit symbol) as value
MeasureUnit ==
    << [name |-> <<"M","A","S","S">>,
        value |-> << <<"g","r","a","m">>, <<"g","r">> >>],
       [name |-> <<"F","O","R","C","E">>,
        value |-> << <<"n","e","w","t","o","n">>, <<"N">> >>],
       [name |-> <<"E","N","E","R","G","Y">>,
        value |-> << <<"j","o","u","l","e">>, <<"J">> >>] >>

\* Science.measure_unit(name, symbol); name is a member of MeasureUnit (its
\* place in the enum) or None (0)
MeasureUnitOf(st, name, symbol) ==
    LET c == IF name = 0 THEN Choice(st, MeasureUnit)
             ELSE [ret |-> MeasureUnit[name], state |-> st]
    IN  [ret |-> IF symbol THEN c.ret.value[2] ELSE c.ret.value[1],
         state |-> c.state]

\* mimesis.enums.MetricPrefixSign, and mimesis.datasets.SI_PREFIXES and
\* SI_PREFIXES_SYM by the sign's value
MetricPrefixSign ==
    << [name |-> <<"P","O","S","I","T","I","V","E">>, value |-> "positive"],
       [name |-> <<"N","E","G","A","T","I","V","E">>, value |-> "negative"] >>
SI_PREFIXES ==
    [positive |-> << <<"k","i","l","o">>, <<"m","e","g","a">> >>,
     negative |-> << <<"m","i","l","l","i">>, <<"m","i","c","r","o">> >>]
SI_PREFIXES_SYM ==
    [positive |-> << <<"k">>, <<"M">> >>,
     negative |-> << <<"m">>, <<"u">> >>]

\* Science.metric_prefix(sign, symbol); sign is a member of
\* MetricPrefixSign (its place in the enum) or None (0)
MetricPrefixOf(st, sign, symbol) ==
    LET c == IF sign = 0 THEN Choice(st, MetricPrefixSign)
             ELSE [ret |-> MetricPrefixSign[sign], state |-> st]
        prefixes == IF symbol THEN SI_PREFIXES_SYM ELSE SI_PREFIXES
    IN  Choice(c.state, prefixes[c.ret.value])

\* An enum with three members, by name and value, in definition order.
EnumMembers ==
    << [name |-> <<"O","N","E">>, value |-> <<"o","n","e">>],
       [name |-> <<"T","W","O">>, value |-> <<"2">>],
       [name |-> <<"S","I","X">>, value |-> <<"6">>] >>
EnumValues == [i \in DOMAIN EnumMembers |-> EnumMembers[i].value]

\* BaseProvider.validate_enum(None, enum), for an enum with __members__
ValidateEnumNone(st) == Choice(st, EnumValues)

\* The generation operations driven: name and length argument.
GenOps == { [name |-> "dna_sequence", length |-> 2],
            [name |-> "rna_sequence", length |-> 1],
            [name |-> "validate_enum", length |-> 0] }

\* ... and the calls of Science.measure_unit and Science.metric_prefix: the
\* name or sign argument (0 for None) and the symbol flag.
UnitOps == { [name |-> "measure_unit", arg |-> 0, symbol |-> FALSE],
             [name |-> "measure_unit", arg |-> 2, symbol |-> TRUE],
             [name |-> "metric_prefix", arg |-> 0, symbol |-> FALSE],
             [name |-> "metric_prefix", arg |-> 2, symbol |-> TRUE] }
AllGenOps == GenOps \cup UnitOps

Generate(st, g) ==
    IF g.name = "dna_sequence" THEN DnaSequence(st, g.length)
    ELSE IF g.name = "rna_sequence" THEN RnaSequence(st, g.length)
    ELSE IF g.name = "measure_unit" THEN MeasureUnitOf(st, g.arg, g.symbol)
    ELSE IF g.name = "metric_prefix" THEN MetricPrefixOf(st, g.arg, g.symbol)
    ELSE ValidateEnumNone(st)

\* --------------------------------------------- validate_enum and _has_seed
\* What is handed in as enum: an Enum class with its members by name and
\* value in definition order, or an object without __members__.
UpperEnum == [name |-> "Digits", hasMembers |-> TRUE, members |-> EnumMembers]
MixedEnum ==
    [name |-> "Color", hasMembers |-> TRUE,
     members |-> << [name |-> <<"R","e","d">>, value |-> <<"r">>],
                    [name |-> <<"G","O">>, value |-> <<"g">>] >>]
NotAnEnum == [name |-> "object", hasMembers |-> FALSE, members |-> <<>>]
EnumArgs == {UpperEnum, MixedEnum, NotAnEnum}

\* What is handed in as item: None, a member of some Enum class, a str, or
\* an object of another type.
ItemNone == [kind |-> "none", of |-> "", text |-> EmptyStr]
ItemMember(e, n) == [kind |-> "member", of |-> e, text |-> n]
ItemStr(txt) == [kind |-> "str", of |-> "", text |-> txt]
ItemOther == [kind |-> "other", of |-> "", text |-> EmptyStr]

EnumNames(enum) == { enum.members[i].name : i \in DOMAIN enum.members }

\* enum[name].value, for name in enum.__members__
EnumValueOf(enum, name) ==
    enum.members[CHOOSE i \in DOMAIN enum.members :
                    enum.members[i].name = name].value

\* [member.value for member in enum]
EnumValueList(enum) == [i \in DOMAIN enum.members |-> enum.members[i].value]

\* BaseProvider.validate_enum(item, enum) with self.random in state st: the
\* error raised or the value returned, and the generator's state afterwards.
ValidateEnum(st, item, enum) ==
    IF ~enum.hasMembers
    THEN [err |-> "NonEnumerableError", ret |-> EmptyStr, state |-> st]
    ELSE IF item.kind = "none"
    THEN [err |-> "none", ret |-> Choice(st, EnumValueList(enum)).ret,
          state |-> Choice(st, EnumValueList(enum)).state]
    ELSE IF item.kind = "member" /\ item.of = enum.name
    THEN [err |-> "none", ret |-> EnumValueOf(enum, item.text), state |-> st]
    ELSE IF item.kind = "str" /\ Upper(item.text) \in EnumNames(enum)
    THEN [err |-> "none", ret |-> EnumValueOf(enum, Upper(item.text)),
          state |-> st]
    ELSE [err |-> "NonEnumerableError", ret |-> EmptyStr, state |-> st]

\* The items driven: None, members of either Enum class, strs that match a
\* member name exactly, in another case, or not at all, and a non-str.
ItemArgs ==
    { ItemNone, ItemOther,
      ItemMember("Digits", <<"T","W","O">>),
      ItemMember("Color", <<"R","e","d">>),
      ItemStr(<<"T","W","O">>), ItemStr(<<"t","w","o">>),
      ItemStr(<<"S","i","x">>), ItemStr(<<"r","e","d">>),
      ItemStr(<<"G","O">>), ItemStr(<<"2">>) }

\* BaseProvider._has_seed(), for self.seed = own and
\* mimesis.random.global_seed = global
HasSeed(own, global) ==
    (own # MissingSeed /\ own # NoneSeed)
        \/ (global # MissingSeed /\ global # NoneSeed)

NoCheck ==
    [op |-> "none", p |-> 0, item |-> ItemNone, enum |-> NotAnEnum,
     err |-> "none", ret |-> EmptyStr, flag |-> FALSE]

\* No global seed set, nothing asked yet.
CoerceIdle ==
    /\ globalSeed = MissingSeed
    /\ clast = NoCheck

NoProv ==
    [live |-> FALSE, external |-> FALSE, gen |-> CallerRandom,
     seed |-> MissingSeed, given |-> MissingSeed, fresh |-> FALSE,
     reseeded |-> FALSE]

NoGen ==
    [op |-> "none", p |-> 0, seed |-> MissingSeed, rnd |-> "none",
     err |-> "none", pre |-> 0, called |-> FALSE, out |-> <<<<>>, <<>>>>,
     sync |-> FALSE]

\* The seed variables while only the dataset operations are driven.
SeedIdle ==
    /\ rng = [r \in Randoms |-> 0]
    /\ prov = [p \in Provs |-> NoProv]
    /\ sync = FALSE
    /\ glast = NoGen

\* Both providers live, last given the same concrete seed, and neither has
\* drawn since.
SeededAlike(pv) ==
    /\ \A p \in Provs : pv[p].live /\ pv[p].fresh
    /\ pv[1].given = pv[2].given
    /\ pv[1].given.kind = "value"

\* A provider that has drawn out of step with the other one: it is no longer
\* fresh, and the record of its last seeding (given, reseeded), which is
\* kept for comparing providers seeded alike, is cleared.
OutOfStep(pr) ==
    [pr EXCEPT !.fresh = FALSE, !.given = MissingSeed, !.reseeded = FALSE]

\* The generator object self.random names after __init__: the caller's
\* when one was passed (self.random = random), else the provider's own.
RandomOf(p, rnd) == IF rnd = "external" THEN CallerRandom ELSE p

\* BaseProvider.__init__(seed=seed, random=...): rnd tells whether no random
\* was passed ("none"), the caller's mimesis Random ("external"), or an
\* object of another type ("badtype").
SeedConstruct(p, seed, rnd) ==
    /\ ~prov[p].live
    /\ IF rnd = "badtype"
       THEN /\ glast' = [NoGen EXCEPT !.op = "construct", !.p = p,
                            !.seed = seed, !.rnd = rnd, !.err = "TypeError"]
            /\ UNCHANGED <<rng, prov, sync>>
       ELSE \E a \in AdoptRandom(rnd, rng[CallerRandom]) :
            \E st \in Reseed(a, seed).states :
            /\ rng' = [rng EXCEPT ![RandomOf(p, rnd)] = st]
            /\ prov' = [prov EXCEPT ![p] =
                          [live |-> TRUE, external |-> (rnd = "external"),
                           gen |-> RandomOf(p, rnd),
                           seed |-> seed, given |-> seed, fresh |-> TRUE,
                           reseeded |-> FALSE]]
            /\ sync' = SeededAlike(prov')
            /\ glast' = [NoGen EXCEPT !.op = "construct", !.p = p,
                            !.seed = seed, !.rnd = rnd,
                            !.pre = IF rnd = "external"
                                    THEN rng[CallerRandom] ELSE 0,
                            !.called = Reseed(a, seed).called]
    /\ clast' = NoCheck
    /\ UNCHANGED <<globalSeed, dvars, hvars>>

\* provider.reseed(seed): seeds the generator object self.random names,
\* whoever else holds it
SeedReseed(p, seed) ==
    /\ prov[p].live
    /\ \E st \in Reseed(rng[prov[p].gen], seed).states :
        /\ rng' = [rng EXCEPT ![prov[p].gen] = st]
        /\ prov' = [prov EXCEPT ![p] =
                      IF seed = MissingSeed THEN @
                      ELSE [@ EXCEPT !.given = seed, !.fresh = TRUE,
                                     !.reseeded = TRUE]]
        /\ sync' = IF seed = MissingSeed THEN sync ELSE SeededAlike(prov')
        /\ glast' = [NoGen EXCEPT !.op = "reseed", !.p = p, !.seed = seed,
                        !.pre = rng[prov[p].gen],
                        !.called = Reseed(rng[prov[p].gen], seed).called]
    /\ clast' = NoCheck
    /\ UNCHANGED <<globalSeed, dvars, hvars>>

\* One provider runs a generation operation on its own.
SeedGenerate(p, g) ==
    /\ prov[p].live
    /\ LET r == Generate(rng[prov[p].gen], g)
       IN  /\ rng' = [rng EXCEPT ![prov[p].gen] = r.state]
           /\ glast' = [NoGen EXCEPT !.op = "generate", !.p = p,
                           !.out = [<<<<>>, <<>>>> EXCEPT ![p] = r.ret]]
    /\ prov' = [q \in Provs |->
                  IF q = p \/ ~prov[q].fresh THEN OutOfStep(prov[q])
                  ELSE prov[q]]
    /\ sync' = FALSE
    /\ clast' = NoCheck
    /\ UNCHANGED <<globalSeed, dvars, hvars>>

\* Both providers run the same generation operation, provider 1 and then
\* provider 2, each on the generator object its self.random names: the
\* second call starts where the first left a generator they share.
SeedGenerateBoth(g) ==
    /\ \A p \in Provs : prov[p].live
    /\ LET r1 == Generate(rng[prov[1].gen], g)
           mid == [rng EXCEPT ![prov[1].gen] = r1.state]
           r2 == Generate(mid[prov[2].gen], g)
       IN  /\ rng' = [mid EXCEPT ![prov[2].gen] = r2.state]
           /\ glast' = [NoGen EXCEPT !.op = "both", !.sync = sync,
                           !.out = <<r1.ret, r2.ret>>]
    /\ prov' = [p \in Provs |->
                  IF sync THEN [prov[p] EXCEPT !.fresh = FALSE]
                  ELSE OutOfStep(prov[p])]
    /\ clast' = NoCheck
    /\ UNCHANGED <<sync, globalSeed, dvars, hvars>>

\* ===================================================================
\* Dict objects and their identity: _extract, _update_dict and
\* update_dataset on datasets and patches that are objects in a heap, so
\* that storing a reference and mutating in place are computed
\* ===================================================================

\* A value held in a dict: a scalar, or a reference to a dict object.
Ref(a) == [REF |-> a]
IsRef(v) == "REF" \in DOMAIN v

\* A dict object is the sequence of its items in insertion order.
Item(key, value) == [k |-> key, v |-> value]

\* key in d
HasKey(d, key) == \E i \in DOMAIN d : d[i].k = key

\* d[key], for a key in d
GetItem(d, key) == d[CHOOSE i \in DOMAIN d : d[i].k = key].v

\* An assignment that forgets a key already present instead of rebinding it.
SetItemDrops(d, key, value) ==
    IF HasKey(d, key)
    THEN SelectSeq(d, LAMBDA it : it.k # key)
    ELSE Append(d, Item(key, value))

\* d[key] = value: rebinds the key in place, or appends a new item
SetItem(d, key, value) ==
    IF HasKey(d, key)
    THEN [i \in DOMAIN d |-> IF d[i].k = key THEN Item(key, value) ELSE d[i]]
    ELSE Append(d, Item(key, value))

\* A lookup that lets a missing key escape as KeyError and catches only the
\* type mismatch.
RECURSIVE ReduceGetItemStrict(_, _, _)
ReduceGetItemStrict(h, keys, v) ==
    IF keys = <<>> THEN [err |-> "none", ret |-> v]
    ELSE IF ~IsRef(v) THEN [err |-> "TypeError", ret |-> v]
    ELSE IF ~HasKey(h[v.REF], Head(keys))
         THEN [err |-> "KeyErrorEscaped", ret |-> v]
         ELSE ReduceGetItemStrict(h, Tail(keys),
                                  GetItem(h[v.REF], Head(keys)))

\* reduce(operator.getitem, keys, v) in heap h: the value reached, or the
\* error operator.getitem raises on the way (KeyError for a dict without the
\* key, TypeError for a str key on a value that is no dict).
RECURSIVE ReduceGetItem(_, _, _)
ReduceGetItem(h, keys, v) ==
    IF keys = <<>> THEN [err |-> "none", ret |-> v]
    ELSE IF ~IsRef(v) THEN [err |-> "TypeError", ret |-> v]
    ELSE IF ~HasKey(h[v.REF], Head(keys))
         THEN [err |-> "KeyError", ret |-> v]
         ELSE ReduceGetItem(h, Tail(keys), GetItem(h[v.REF], Head(keys)))

\* BaseDataProvider._extract(keys, default) on the dataset object at ds
Extract(h, ds, keys, default) ==
    IF keys = <<>> THEN [err |-> "ValueError", ret |-> default]
    ELSE LET r == ReduceGetItem(h, keys, Ref(ds))
         IN  IF r.err \in {"KeyError", "TypeError"}
             THEN [err |-> "none", ret |-> default]
             ELSE r

\* A merge that never recurses: the value from other replaces the one in
\* initial even when both are dicts.
RECURSIVE UpdateDictShallow(_, _, _, _)
UpdateDictShallow(h, ia, oa, i) ==
    IF i > Len(h[oa]) THEN h
    ELSE UpdateDictShallow(
            [h EXCEPT ![ia] = SetItem(@, h[oa][i].k, h[oa][i].v)],
            ia, oa, i + 1)

\* BaseDataProvider._update_dict(initial, other), from other's i-th item on,
\* for the dict objects at ia and oa in heap h: the heap afterwards. The
\* loop reads other's items from the heap as it stands at each step, and
\* `initial[key] = value` stores the value itself: for a dict, a reference
\* to the very object other holds.
RECURSIVE UpdateDictFrom(_, _, _, _)
UpdateDictFrom(h, ia, oa, i) ==
    IF i > Len(h[oa]) THEN h
    ELSE LET key == h[oa][i].k
             value == h[oa][i].v
             h1 == IF /\ HasKey(h[ia], key)
                      /\ IsRef(GetItem(h[ia], key))
                      /\ IsRef(value)
                   THEN UpdateDictFrom(h, GetItem(h[ia], key).REF,
                                       value.REF, 1)
                   ELSE [h EXCEPT ![ia] = SetItem(@, key, value)]
         IN  UpdateDictFrom(h1, ia, oa, i + 1)

\* _update_dict(initial, other): the heap afterwards and the object returned
HeapUpdateDict(h, ia, oa) == [heap |-> UpdateDictFrom(h, ia, oa, 1), ret |-> ia]

\* The mapping a value stands for, references followed: what == compares.
RECURSIVE ValueOfObj(_, _)
ValueOfObj(h, v) ==
    IF IsRef(v)
    THEN [key \in { h[v.REF][i].k : i \in DOMAIN h[v.REF] } |->
             ValueOfObj(h, GetItem(h[v.REF], key))]
    ELSE v

\* The dict objects: three per provider (the dataset json.load built, its
\* nested dict and the dict nested in that), three per patch the caller
\* built. _update_dict creates no dict, so these are all there are.
PatchIds == {1, 2}
ProvBase(p) == 3 * (p - 1) + 1
PatchBase(q) == 3 * (q - 1) + 7
Addrs == 1..12

\* Datasets as loaded, laid out from address b on: nested two levels deep;
\* flat with a scalar under "day"; empty.
FullData(b) ==
    << <<Item("greeting", Leaf("hello")), Item("day", Ref(b + 1))>>,
       <<Item("a", Leaf("mon")), Item("n", Ref(b + 2))>>,
       <<Item("x", Leaf("one"))>> >>
FlatData(b) ==
    << <<Item("greeting", Leaf("hello")), Item("day", Leaf("off"))>>,
       <<>>, <<>> >>
EmptyData(b) == << <<>>, <<>>, <<>> >>
DataShapes(b) == {FullData(b), FlatData(b), EmptyData(b)}

\* Patches the caller builds: one reaching two levels down, one one level
\* down, one putting scalars where the dataset may hold dicts.
DeepPatch(b) ==
    << <<Item("day", Ref(b + 1))>>,
       <<Item("n", Ref(b + 2)), Item("b", Leaf("tue"))>>,
       <<Item("y", Leaf("two"))>> >>
DayPatch(b) ==
    << <<Item("day", Ref(b + 1))>>, <<Item("a", Leaf("lun"))>>, <<>> >>
ScalarPatch(b) ==
    << <<Item("greeting", Leaf("hi")), Item("day", Leaf("shut"))>>,
       <<>>, <<>> >>
PatchShapes(b) == {DeepPatch(b), DayPatch(b), ScalarPatch(b)}

\* The heap holding the given three-object layouts at their bases
HeapOf(d, pt) ==
    [a \in Addrs |->
        IF a < PatchBase(1)
        THEN d[((a - 1) \div 3) + 1][((a - 1) % 3) + 1]
        ELSE pt[((a - 7) \div 3) + 1][((a - 7) % 3) + 1]]

\* Key paths and defaults handed to _extract; what is handed to
\* update_dataset: one of the caller's patch objects, or a str.
KeyPaths ==
    { <<>>, <<"greeting">>, <<"day">>, <<"day", "a">>, <<"day", "n", "x">>,
      <<"day", "n", "y">>, <<"greeting", "a">>, <<"day", "zz">>, <<"nope">> }
Defaults == { Leaf("None"), Leaf("dflt") }
PatchArgs == { Ref(PatchBase(q)) : q \in PatchIds } \cup { Leaf("text") }

NoCall ==
    [op |-> "none", p |-> 0, arg |-> Leaf("None"), keys |-> <<>>,
     default |-> Leaf("None"), err |-> "none", ret |-> Leaf("None"),
     pre |-> <<>>, preDs |-> 0, again |-> FALSE]

\* The dict objects while other operations are driven.
HeapIdle ==
    /\ heap = [a \in Addrs |-> <<>>]
    /\ dsAddr = [p \in Provs |-> ProvBase(p)]
    /\ mlast = NoCall

\* provider._extract(keys, default)
HeapExtract(p, keys, default) ==
    /\ LET r == Extract(heap, dsAddr[p], keys, default)
       IN  mlast' = [NoCall EXCEPT !.op = "extract", !.p = p, !.keys = keys,
                        !.default = default, !.err = r.err, !.ret = r.ret,
                        !.pre = heap, !.preDs = dsAddr[p]]
    /\ UNCHANGED <<heap, dsAddr, dvars, svars, cvars>>

\* provider.update_dataset(data)
HeapUpdateDataset(p, data) ==
    /\ IF ~IsRef(data)
       THEN /\ mlast' = [NoCall EXCEPT !.op = "update_dataset", !.p = p,
                            !.arg = data, !.err = "TypeError",
                            !.pre = heap, !.preDs = dsAddr[p]]
            /\ UNCHANGED <<heap, dsAddr>>
       ELSE LET r == HeapUpdateDict(heap, dsAddr[p], data.REF)
            IN  /\ heap' = r.heap
                /\ dsAddr' = [dsAddr EXCEPT ![p] = r.ret]
                /\ mlast' = [NoCall EXCEPT !.op = "update_dataset", !.p = p,
                                !.arg = data, !.ret = Ref(r.ret),
                                !.pre = heap, !.preDs = dsAddr[p],
                                !.again = /\ mlast.op = "update_dataset"
                                          /\ mlast.err = "none"
                                          /\ mlast.p = p
                                          /\ mlast.arg = data]
    /\ UNCHANGED <<dvars, svars, cvars>>

\* ---------------------------------- calls of validate_enum and _has_seed

\* provider.validate_enum(item, enum)
CallValidateEnum(p, item, enum) ==
    /\ prov[p].live
    /\ LET r == ValidateEnum(rng[prov[p].gen], item, enum)
       IN  /\ rng' = [rng EXCEPT ![prov[p].gen] = r.state]
           /\ clast' = [NoCheck EXCEPT !.op = "validate_enum", !.p = p,
                           !.item = item, !.enum = enum, !.err = r.err,
                           !.ret = r.ret]
    /\ prov' = [prov EXCEPT ![p].fresh = FALSE]
    /\ sync' = FALSE
    /\ glast' = [NoGen EXCEPT !.op = "validate_enum", !.p = p]
    /\ UNCHANGED <<globalSeed, dvars, hvars>>

\* provider._has_seed()
CallHasSeed(p) ==
    /\ prov[p].live
    /\ clast' = [NoCheck EXCEPT !.op = "_has_seed", !.p = p,
                    !.flag = HasSeed(prov[p].seed, globalSeed)]
    /\ glast' = [NoGen EXCEPT !.op = "_has_seed", !.p = p]
    /\ UNCHANGED <<rng, prov, sync, globalSeed, dvars, hvars>>

\* ------------------------------------------------------------------- inputs
StrInputs == Tags \cup { <<"e","n","_","g","b">>, <<"x","x">> }

LocaleInputs ==
    {PyNone, PyOther} \cup { PyMember(n) : n \in MemberNames }
                      \cup { PyStr(s) : s \in StrInputs }

\* A patch that replaces a scalar and reaches into a nested mapping, and a
\* str handed in where a dict is required.
Patches == { [greeting |-> Leaf("hi"), day |-> [b |-> Leaf("wed")]],
             Leaf("text") }

\* ------------------------------------------------------------------- state
NoOp ==
    [op |-> "none", arg |-> PyNone, err |-> "none", ret |-> EmptyStr,
     preHas |-> FALSE, preLocale |-> EmptyStr, preDataset |-> EmptyDict,
     ran |-> FALSE, raised |-> FALSE, saved |-> EmptyStr,
     enterDataset |-> EmptyDict, enterPristine |-> EmptyDict,
     nested |-> FALSE]

Observed(op, arg, err) ==
    [NoOp EXCEPT !.op = op, !.arg = arg, !.err = err, !.preHas = hasLocale,
                 !.preLocale = locale, !.preDataset = dataset]

\* Before any provider is constructed.
Init ==
    /\ fs \in FileSystems
    /\ named \in BOOLEAN
    /\ phase = "new"
    /\ hasLocale = FALSE
    /\ locale = EmptyStr
    /\ dataset = EmptyDict
    /\ loadedFor = EmptyStr
    /\ pristine = EmptyDict
    /\ scopes = <<>>
    /\ last = NoOp
    /\ SeedIdle
    /\ HeapIdle
    /\ CoerceIdle

\* What an operation that ran SetupThenLoad leaves in the instance.
Install(r) ==
    /\ hasLocale' = r.has
    /\ locale' = r.locale
    /\ dataset' = r.dataset
    /\ loadedFor' = IF r.ran /\ r.err = "none" THEN r.locale ELSE loadedFor
    /\ pristine' = IF r.ran /\ r.err = "none" THEN r.dataset ELSE pristine

\* BaseDataProvider.__init__(locale=x): self._dataset = {}, _setup_locale,
\* _load_dataset.
Construct(x) ==
    /\ phase = "new"
    /\ LET r == SetupThenLoad(x, EmptyDict)
       IN  /\ phase' = IF r.err = "none" THEN "live" ELSE "failed"
           /\ Install(r)
           /\ last' = [Observed("construct", x, r.err) EXCEPT !.ran = r.ran]
    /\ UNCHANGED <<fs, named, scopes, svars, hvars, cvars>>

\* BaseDataProvider.update_dataset(data)
UpdateDataset(data) ==
    /\ phase = "live"
    /\ IF ~IsDict(data)
       THEN /\ last' = Observed("update_dataset", PyNone, "TypeError")
            /\ UNCHANGED dataset
       ELSE /\ dataset' = UpdateDict(dataset, data)
            /\ last' = Observed("update_dataset", PyNone, "none")
    /\ UNCHANGED <<fs, named, phase, hasLocale, locale, loadedFor, pristine,
                   scopes, svars, hvars, cvars>>

\* The attribute read by getattr(self, 'locale', Locale.DEFAULT): the stored
\* str, or the enum member when the attribute is missing.
LocaleAttrOrDefault ==
    IF hasLocale THEN PyStr(locale) ELSE PyMember(DEFAULT)

\* obj.value: defined for an enum member, AttributeError for a str
ValueOf(obj) ==
    IF obj.kind = "member"
    THEN [err |-> "none", ret |-> MemberValue(obj.text)]
    ELSE [err |-> "AttributeError", ret |-> EmptyStr]

\* BaseDataProvider.get_current_locale()
GetCurrentLocale ==
    /\ phase \in {"live", "failed"}
    /\ LET r == ValueOf(LocaleAttrOrDefault)
       IN  last' = [Observed("get_current_locale", PyNone, r.err)
                       EXCEPT !.ret = r.ret]
    /\ UNCHANGED <<fs, named, phase, hasLocale, locale, dataset, loadedFor,
                   pristine, scopes, svars, hvars, cvars>>

\* BaseDataProvider.override_locale(x), up to the yield: the scope is entered
\* when _override_locale returns; an error before the try leaves no scope.
OverrideEnter(x) ==
    /\ phase = "live" \/ (phase = "failed" /\ ~hasLocale)
    /\ Len(scopes) < MaxDepth
    /\ IF ~hasLocale
       THEN /\ last' = Observed("enter", x, "ValueError")
            /\ UNCHANGED <<hasLocale, locale, dataset, loadedFor, pristine,
                           scopes>>
       ELSE LET r == OverrideLocale(x)
            IN  /\ Install(r)
                /\ scopes' = IF r.err = "none"
                             THEN Append(scopes, [saved |-> locale,
                                                  enterDataset |-> dataset,
                                                  enterPristine |-> pristine])
                             ELSE scopes
                /\ last' = [Observed("enter", x, r.err) EXCEPT !.ran = r.ran]
    /\ UNCHANGED <<fs, named, phase, svars, hvars, cvars>>

\* A finally clause that puts back the dataset object stashed at entry
\* instead of reloading the saved locale's dataset.
ExitRestoreStashed(sc) ==
    [OverrideLocale(PyStr(sc.saved)) EXCEPT !.dataset =
        IF OverrideLocale(PyStr(sc.saved)).err = "none"
        THEN sc.enterDataset ELSE @]

\* The finally clause of override_locale:
\* self._override_locale(current_locale), with the str saved at entry.
ExitRestore(sc) == OverrideLocale(PyStr(sc.saved))

\* Leaving the innermost scope, its body having completed or raised; err is
\* the error the finally clause itself raises; nested tells that the call
\* before was the exit of a scope opened inside this one.
OverrideExit(raised) ==
    /\ scopes # <<>>
    /\ LET sc == scopes[Len(scopes)]
           r == ExitRestore(sc)
       IN  /\ Install(r)
           /\ last' = [Observed("exit", PyStr(sc.saved), r.err)
                          EXCEPT !.ran = r.ran, !.raised = raised,
                                 !.saved = sc.saved,
                                 !.enterDataset = sc.enterDataset,
                                 !.enterPristine = sc.enterPristine,
                                 !.nested = (last.op = "exit")]
    /\ scopes' = SubSeq(scopes, 1, Len(scopes) - 1)
    /\ UNCHANGED <<fs, named, phase, svars, hvars, cvars>>

Next ==
    \/ \E x \in LocaleInputs : Construct(x)
    \/ \E d \in Patches : UpdateDataset(d)
    \/ GetCurrentLocale
    \/ \E x \in LocaleInputs : OverrideEnter(x)
    \/ \E b \in BOOLEAN : OverrideExit(b)

Spec == Init /\ [][Next]_vars

\* No provider constructed yet, and the caller's Random() in the state
\* system entropy gave it; the dataset variables stay idle while only the
\* random source is driven.
SeedInit ==
    /\ \E s0 \in RngStates :
          rng = [r \in Randoms |-> IF r = CallerRandom THEN s0 ELSE 0]
    /\ prov = [p \in Provs |-> NoProv]
    /\ sync = FALSE
    /\ glast = NoGen
    /\ fs = [d \in Dirs |-> NoFile]
    /\ named = FALSE
    /\ phase = "new"
    /\ hasLocale = FALSE
    /\ locale = EmptyStr
    /\ dataset = EmptyDict
    /\ loadedFor = EmptyStr
    /\ pristine = EmptyDict
    /\ scopes = <<>>
    /\ last = NoOp
    /\ HeapIdle
    /\ CoerceIdle

SeedNext ==
    \/ \E p \in Provs, seed \in SeedArgs,
             rnd \in {"none", "external", "badtype"} :
          SeedConstruct(p, seed, rnd)
    \/ \E p \in Provs, seed \in SeedArgs : SeedReseed(p, seed)
    \/ \E p \in Provs, g \in AllGenOps : SeedGenerate(p, g)
    \/ \E g \in AllGenOps : SeedGenerateBoth(g)

SpecSeed == SeedInit /\ [][SeedNext]_vars

\* Two providers hold the datasets they loaded and the caller holds two
\* patches, every dict a distinct object.
MergeInit ==
    /\ \E d1 \in DataShapes(ProvBase(1)), d2 \in DataShapes(ProvBase(2)),
          p1 \in PatchShapes(PatchBase(1)), p2 \in PatchShapes(PatchBase(2)) :
            heap = HeapOf(<<d1, d2>>, <<p1, p2>>)
    /\ dsAddr = [p \in Provs |-> ProvBase(p)]
    /\ mlast = NoCall
    /\ fs = [d \in Dirs |-> NoFile]
    /\ named = FALSE
    /\ phase = "new"
    /\ hasLocale = FALSE
    /\ locale = EmptyStr
    /\ dataset = EmptyDict
    /\ loadedFor = EmptyStr
    /\ pristine = EmptyDict
    /\ scopes = <<>>
    /\ last = NoOp
    /\ rng = [r \in Randoms |-> 0]
    /\ prov = [p \in Provs |-> NoProv]
    /\ sync = FALSE
    /\ glast = NoGen
    /\ globalSeed = MissingSeed
    /\ clast = NoCheck

MergeNext ==
    \/ \E p \in Provs, keys \in KeyPaths, default \in Defaults :
          HeapExtract(p, keys, default)
    \/ \E p \in Provs, data \in PatchArgs : HeapUpdateDataset(p, data)

SpecMerge == MergeInit /\ [][MergeNext]_vars

\* No provider constructed yet; the process-wide seed is whatever the
\* program set it to.
CoerceInit ==
    /\ globalSeed \in SeedArgs
    /\ clast = NoCheck
    /\ rng = [r \in Randoms |-> 0]
    /\ prov = [p \in Provs |-> NoProv]
    /\ sync = FALSE
    /\ glast = NoGen
    /\ heap = [a \in Addrs |-> <<>>]
    /\ dsAddr = [p \in Provs |-> ProvBase(p)]
    /\ mlast = NoCall
    /\ fs = [d \in Dirs |-> NoFile]
    /\ named = FALSE
    /\ phase = "new"
    /\ hasLocale = FALSE
    /\ locale = EmptyStr
    /\ dataset = EmptyDict
    /\ loadedFor = EmptyStr
    /\ pristine = EmptyDict
    /\ scopes = <<>>
    /\ last = NoOp

\* One provider is constructed, reseeded and asked.
CoerceNext ==
    \/ \E seed \in SeedArgs, rnd \in {"none", "badtype"} :
          SeedConstruct(1, seed, rnd)
    \/ \E seed \in SeedArgs : SeedReseed(1, seed)
    \/ \E item \in ItemArgs, enum \in EnumArgs :
          CallValidateEnum(1, item, enum)
    \/ CallHasSeed(1)

SpecCoerce == CoerceInit /\ [][CoerceNext]_vars

\* ===================================================================
\* Claims about locale and dataset, checked under Spec
\* ===================================================================

\* The base locale of the stored locale: locale.split(LOCALE_SEP)[0]
BaseOfLocale == SplitFirst(locale, LOCALE_SEP)
IsComposite == Contains(locale, LOCALE_SEP)

\* C1: after an override_locale scope exits, whether its body completed or
\* raised, the provider's current locale is the locale L1 that was current
\* when the scope was entered, for root and composite L1 alike.
C1_ExitRestoresLocale ==
    last.op = "exit" => (hasLocale /\ locale = last.saved)

\* C2 as stated: if update_dataset changed the dataset before the scope was
\* entered, the dataset after the exit equals the (patched) dataset just
\* before the entry. Stated for the exits whose restore of L1 raised
\* nothing, where C1 holds.
C2_ExitKeepsPatch ==
    (last.op = "exit" /\ last.err = "none"
        /\ last.enterDataset # last.enterPristine)
        => dataset = last.enterDataset

\* C2 amended: the exit reloads; it does not restore. When the exit's
\* reload runs on a provider with a data file (Meta.name), the locale is L1
\* again and the dataset is the data as loaded for L1 without any patch, so
\* a patch that changed it is gone; a provider without Meta.name loads
\* nothing and keeps its dataset as it is, as does an exit whose restore of
\* L1 is refused.
C2_ExitReloads ==
    last.op = "exit" =>
        IF last.ran /\ last.err = "none" /\ named
        THEN /\ locale = last.saved
             /\ dataset = last.enterPristine
             /\ (last.enterDataset # last.enterPristine
                    => dataset # last.enterDataset)
        ELSE dataset = last.preDataset

\* Witness of C2: a patched provider with a data file has left a scope whose
\* reload ran, and the patch is gone.
C2_Witness ==
    /\ phase = "live" /\ named
    /\ last.op = "exit" /\ last.ran /\ last.err = "none"
    /\ last.enterDataset # last.enterPristine
    /\ "greeting" \in DOMAIN last.enterDataset
    /\ last.enterDataset.greeting = Leaf("hi")
    /\ dataset # last.enterDataset

\* C3: between operations the stored dataset is the one loaded for the
\* stored locale, and a locale change whose load fails leaves the stored
\* locale and dataset as they were.
C3_DatasetMatchesLocale ==
    phase = "live" =>
        /\ loadedFor = locale
        /\ (last.err = "FileNotFoundError"
               => locale = last.preLocale /\ dataset = last.preDataset)

\* C4: loading for a composite locale whose own file is missing while the
\* base locale's file exists raises nothing and yields the base dataset,
\* whatever the base dataset holds (the empty mapping included).
C4_BaseFallback ==
    (last.ran /\ named /\ IsComposite /\ ~FileExists(locale)
        /\ FileExists(BaseOfLocale))
        => (last.err = "none" /\ dataset = FileData(BaseOfLocale))

\* C5: loading for a locale with neither its own file nor (when composite) a
\* base file raises FileNotFoundError and leaves the stored dataset alone.
C5_NotFound ==
    (last.ran /\ named /\ ~FileExists(locale)
        /\ ~(IsComposite /\ FileExists(BaseOfLocale)))
        => (last.err = "FileNotFoundError" /\ dataset = last.preDataset)

\* Witness of C5: an override to a locale without any file failed on a
\* provider that holds a non-empty dataset.
C5_Witness ==
    /\ phase = "live" /\ named
    /\ last.op = "enter" /\ last.ran
    /\ ~FileExists(locale) /\ ~(IsComposite /\ FileExists(BaseOfLocale))
    /\ last.err = "FileNotFoundError"
    /\ dataset # EmptyDict /\ dataset = last.preDataset

\* C9: get_current_locale() returns, without raising, the tag of the
\* current locale, and "en" when no locale is defined.
C9_GetCurrentLocale ==
    last.op = "get_current_locale" =>
        /\ last.err = "none"
        /\ last.ret = IF hasLocale THEN locale ELSE <<"e","n">>

\* A supported locale as an input: a Locale member, or the tag of one as str.
IsSupportedInput(x) ==
    x.kind = "member" \/ (x.kind = "str" /\ x.text \in Tags)
TagOfInput(x) == IF x.kind = "member" THEN MemberValue(x.text) ELSE x.text

\* C10: setting the locale (construction or override) with a supported
\* locale, as a member or as its tag string, is accepted and makes that tag
\* the current locale; a string that is no tag, or an object of another
\* type, fails with LocaleError and leaves locale and dataset unchanged.
C10_SetLocale ==
    (last.op \in {"construct", "enter"} /\ last.arg.kind # "none"
        /\ (last.op = "enter" => last.preHas))
        => IF IsSupportedInput(last.arg)
           THEN /\ last.err \notin {"LocaleError", "TypeError"}
                /\ hasLocale /\ locale = TagOfInput(last.arg)
           ELSE /\ last.err = "LocaleError"
                /\ hasLocale = last.preHas /\ locale = last.preLocale
                /\ dataset = last.preDataset

\* C17: nested override scopes unwind last-in-first-out: when a scope
\* opened inside another exits, the current locale is the one the enclosing
\* scope had set (L2), and when the enclosing scope exits next, the current
\* locale is the one current before it was entered (L1), whether the bodies
\* completed or raised.
C17_NestedUnwind ==
    (last.op = "exit" /\ (scopes # <<>> \/ last.nested))
        => (hasLocale /\ locale = last.saved)

\* ===================================================================
\* Claims about the random source, checked under SpecSeed
\* ===================================================================

\* C6 as stated: any two providers constructed with the same concrete seed,
\* given the same generation operations one after the other, produce the
\* same outputs at every step.
C6_SameSeedSameOutputs ==
    (glast.op = "both" /\ glast.sync
        /\ ~prov[1].reseeded /\ ~prov[2].reseeded)
        => glast.out[1] = glast.out[2]

\* C6 amended: two providers constructed with the same concrete seed that
\* do not hold the same generator object, given the same generation
\* operations one after the other, produce the same outputs at every step.
C6_OwnGeneratorSameOutputs ==
    (glast.op = "both" /\ glast.sync
        /\ ~prov[1].reseeded /\ ~prov[2].reseeded
        /\ prov[1].gen # prov[2].gen)
        => glast.out[1] = glast.out[2]

\* Witness of C6: a provider on the caller's generator and one on its own,
\* both constructed with seed 2, have just produced the same two letters.
C6_Witness ==
    /\ glast.op = "both" /\ glast.sync
    /\ ~prov[1].reseeded /\ ~prov[2].reseeded
    /\ prov[1].external /\ ~prov[2].external
    /\ prov[1].gen # prov[2].gen
    /\ prov[1].seed = Concrete(2) /\ prov[2].seed = Concrete(2)
    /\ Len(glast.out[1]) = 2 /\ glast.out[1] = glast.out[2]

\* C7 as stated: constructing a provider on an externally supplied random
\* source does not reseed it, whatever seed argument is passed: seed() is
\* not called and the generator's state is what it was.
C7_ExternalNeverReseeded ==
    (glast.op = "construct" /\ glast.rnd = "external")
        => (~glast.called /\ rng[prov[glast.p].gen] = glast.pre)

\* C7 amended: the external source is adopted as it is, and left unseeded
\* exactly when the seed argument is the missing sentinel (the default);
\* any other seed argument, None included, is passed to its seed(), a
\* concrete one putting it in that seed's state.
C7_ExternalReseededOnlyWithSeed ==
    (glast.op = "construct" /\ glast.rnd = "external")
        => IF glast.seed = MissingSeed
           THEN ~glast.called /\ rng[prov[glast.p].gen] = glast.pre
           ELSE /\ glast.called
                /\ (glast.seed.kind = "value"
                       => rng[prov[glast.p].gen] = SeedState(glast.seed.v))

\* Witness of C7: a provider was constructed without a seed on the caller's
\* generator, which is still in the state the caller left it in.
C7_Witness ==
    /\ glast.op = "construct" /\ glast.rnd = "external"
    /\ glast.seed = MissingSeed /\ ~glast.called
    /\ glast.pre = 2 /\ rng[prov[glast.p].gen] = 2
    /\ prov[glast.p].live /\ prov[glast.p].external

\* C8 as stated: reseed(MissingSeed) calls nothing and leaves the
\* generator's state; reseed(v) for any other v, None included, calls
\* seed(v); and after reseed(s) with a concrete s the outputs are those of a
\* provider freshly seeded with s, whatever was drawn or seeded before.
C8_Reseed ==
    /\ (glast.op = "reseed" /\ glast.seed = MissingSeed)
          => (~glast.called /\ rng[prov[glast.p].gen] = glast.pre)
    /\ (glast.op = "reseed" /\ glast.seed # MissingSeed)
          => /\ glast.called
             /\ (glast.seed.kind = "value"
                    => rng[prov[glast.p].gen] = SeedState(glast.seed.v))
    /\ (glast.op = "both" /\ glast.sync
          /\ (prov[1].reseeded \/ prov[2].reseeded))
          => glast.out[1] = glast.out[2]

\* C8 amended: as stated, the comparison with a freshly seeded provider
\* being made between providers that do not hold the same generator object.
C8_ReseedOwnGenerator ==
    /\ (glast.op = "reseed" /\ glast.seed = MissingSeed)
          => (~glast.called /\ rng[prov[glast.p].gen] = glast.pre)
    /\ (glast.op = "reseed" /\ glast.seed # MissingSeed)
          => /\ glast.called
             /\ (glast.seed.kind = "value"
                    => rng[prov[glast.p].gen] = SeedState(glast.seed.v))
    /\ (glast.op = "both" /\ glast.sync
          /\ (prov[1].reseeded \/ prov[2].reseeded)
          /\ prov[1].gen # prov[2].gen)
          => glast.out[1] = glast.out[2]

\* Witness of C8: provider 1, constructed with seed 1 and later reseeded
\* with 2, has just produced the same output as provider 2, constructed with
\* seed 2 and never reseeded.
C8_Witness ==
    /\ glast.op = "both" /\ glast.sync
    /\ prov[1].reseeded /\ ~prov[2].reseeded
    /\ prov[1].gen # prov[2].gen
    /\ prov[1].seed = Concrete(1) /\ prov[1].given = Concrete(2)
    /\ prov[2].seed = Concrete(2)
    /\ Len(glast.out[1]) = 2 /\ glast.out[1] = glast.out[2]

\* ===================================================================
\* Claims about _extract and merging, checked under SpecMerge
\* ===================================================================

\* The dataset of provider p and the caller's patch q, as mappings, in heap h
DatasetValue(h, ds) == ValueOfObj(h, Ref(ds))
PatchValue(h, q) == ValueOfObj(h, Ref(PatchBase(q)))

\* Following keys in order through the mapping v: whether every key was
\* there to follow, and the value reached.
RECURSIVE Follow(_, _)
Follow(v, keys) ==
    IF keys = <<>> THEN [found |-> TRUE, at |-> v]
    ELSE IF IsDict(v) /\ Head(keys) \in DOMAIN v
         THEN Follow(v[Head(keys)], Tail(keys))
         ELSE [found |-> FALSE, at |-> v]

\* C11: _extract(keys, default) fails with ValueError when keys is empty;
\* otherwise it returns the value reached by following keys in order through
\* the dataset, and default when a key on the path is missing or a value on
\* the path cannot be indexed by the next key; the dataset is unchanged in
\* every case.
C11_Extract ==
    mlast.op = "extract" =>
        /\ heap = mlast.pre
        /\ dsAddr[mlast.p] = mlast.preDs
        /\ IF mlast.keys = <<>>
           THEN mlast.err = "ValueError"
           ELSE LET f == Follow(DatasetValue(heap, mlast.preDs), mlast.keys)
                IN  /\ mlast.err = "none"
                    /\ ValueOfObj(heap, mlast.ret) =
                          IF f.found THEN f.at ELSE mlast.default

\* Witness of C11: on a patched dataset whose "greeting" is a str, the path
\* greeting/a met a value it could not index and the default came back.
C11_Witness ==
    /\ mlast.op = "extract" /\ mlast.err = "none"
    /\ mlast.keys = <<"greeting", "a">>
    /\ mlast.default = Leaf("dflt") /\ mlast.ret = Leaf("dflt")
    /\ HasKey(heap[dsAddr[mlast.p]], "greeting")
    /\ GetItem(heap[dsAddr[mlast.p]], "greeting") = Leaf("hi")

\* C12: merging is idempotent for a patch merged against itself: a second
\* update_dataset(P) with the same patch object right after the first
\* leaves the dataset the mapping it was, and for the dataset D and patch P
\* of any update_dataset call, as mappings, merging P into the result of
\* merging P into D gives that result again.
C12_MergeIdempotent ==
    mlast.op = "update_dataset" /\ mlast.err = "none" =>
        /\ mlast.again =>
              DatasetValue(heap, dsAddr[mlast.p]) =
                  DatasetValue(mlast.pre, mlast.preDs)
        /\ LET D == DatasetValue(mlast.pre, mlast.preDs)
               P == ValueOfObj(mlast.pre, mlast.arg)
           IN  UpdateDict(UpdateDict(D, P), P) = UpdateDict(D, P)

\* Witness of C12: the two-level patch was merged twice in a row into a
\* dataset that held its own data there, and both are in the result.
C12_Witness ==
    /\ mlast.op = "update_dataset" /\ mlast.err = "none" /\ mlast.again
    /\ Follow(DatasetValue(heap, dsAddr[mlast.p]), <<"day", "n", "x">>)
          = [found |-> TRUE, at |-> Leaf("one")]
    /\ Follow(DatasetValue(heap, dsAddr[mlast.p]), <<"day", "n", "y">>)
          = [found |-> TRUE, at |-> Leaf("two")]

\* new is what the merge rule makes of initial and other: for every key of
\* other, the merge of the two values when the key is in initial and both
\* are mappings, and other's value otherwise; every other key of initial
\* with its value.
RECURSIVE MergedAs(_, _, _)
MergedAs(initial, other, new) ==
    /\ IsDict(new)
    /\ DOMAIN new = DOMAIN initial \cup DOMAIN other
    /\ \A key \in DOMAIN other :
          IF key \in DOMAIN initial /\ IsDict(initial[key])
                /\ IsDict(other[key])
          THEN MergedAs(initial[key], other[key], new[key])
          ELSE new[key] = other[key]
    /\ \A key \in DOMAIN initial \ DOMAIN other : new[key] = initial[key]

\* C13: update_dataset(P) leaves the dataset as the merge rule says, keys
\* of the dataset that P does not name keeping their values at every depth,
\* and the dataset is the same object as before, mutated in place and
\* returned by the merge.
C13_MergeRule ==
    mlast.op = "update_dataset" /\ mlast.err = "none" =>
        /\ MergedAs(DatasetValue(mlast.pre, mlast.preDs),
                    ValueOfObj(mlast.pre, mlast.arg),
                    DatasetValue(heap, dsAddr[mlast.p]))
        /\ dsAddr[mlast.p] = mlast.preDs
        /\ mlast.ret = Ref(mlast.preDs)

\* Witness of C13: the two-level patch merged into the nested dataset as
\* loaded: day/n has gained y next to x, day has gained b next to a, and
\* greeting is untouched.
C13_Witness ==
    /\ mlast.op = "update_dataset" /\ mlast.err = "none"
    /\ DatasetValue(mlast.pre, mlast.preDs) =
          [greeting |-> Leaf("hello"),
           day |-> [a |-> Leaf("mon"), n |-> [x |-> Leaf("one")]]]
    /\ DatasetValue(heap, dsAddr[mlast.p]) =
          [greeting |-> Leaf("hello"),
           day |-> [a |-> Leaf("mon"), b |-> Leaf("tue"),
                    n |-> [x |-> Leaf("one"), y |-> Leaf("two")]]]

\* C16: an update_dataset on one provider changes neither the other
\* provider's dataset nor any patch object of the caller.
C16_DatasetsOwned ==
    mlast.op = "update_dataset" =>
        /\ \A p \in Provs \ {mlast.p} :
              DatasetValue(heap, dsAddr[p]) = DatasetValue(mlast.pre, dsAddr[p])
        /\ \A q \in PatchIds : PatchValue(heap, q) = PatchValue(mlast.pre, q)

\* ===================================================================
\* Claims about validate_enum and _has_seed, checked under SpecCoerce
\* ===================================================================

\* The members of enum whose name is txt up to case
MatchingMembers(enum, txt) ==
    { i \in DOMAIN enum.members : Upper(enum.members[i].name) = Upper(txt) }

\* C14: validate_enum(item, enum) returns a value of one of the enum's
\* members when item is None, the member's value when item is a member of
\* enum, the value of the member whose name matches item case-insensitively
\* when item is a str, and fails with NonEnumerableError in every other
\* case: a str matching no name, another type, an enum without __members__.
C14_ValidateEnum ==
    clast.op = "validate_enum" =>
        IF ~clast.enum.hasMembers
        THEN clast.err = "NonEnumerableError"
        ELSE IF clast.item.kind = "none"
        THEN /\ clast.err = "none"
             /\ \E i \in DOMAIN clast.enum.members :
                   clast.ret = clast.enum.members[i].value
        ELSE IF clast.item.kind = "member" /\ clast.item.of = clast.enum.name
        THEN /\ clast.err = "none"
             /\ clast.ret = EnumValueOf(clast.enum, clast.item.text)
        ELSE IF /\ clast.item.kind = "str"
                /\ MatchingMembers(clast.enum, clast.item.text) # {}
        THEN /\ clast.err = "none"
             /\ \E i \in MatchingMembers(clast.enum, clast.item.text) :
                   clast.ret = clast.enum.members[i].value
        ELSE clast.err = "NonEnumerableError"

\* C15: _has_seed() is true exactly when the value the provider's generator
\* was last seeded with, by the constructor or a later reseed, is concrete,
\* or, that value being unset or None, when the global seed is concrete.
C15_HasSeed ==
    clast.op = "_has_seed" =>
        clast.flag =
            (\/ prov[clast.p].given.kind = "value"
             \/ /\ prov[clast.p].given.kind # "value"
                /\ globalSeed.kind = "value")

====
